---------------------------- MODULE Spec2Model ----------------------------
(***************************************************************************)
(* A model of OsmPicker (src/src/osmpicker.js): a text input bound to a    *)
(* Leaflet map.  The state is the host document, the value of each input   *)
(* element, the private fields of each picker instance and the state of    *)
(* the Leaflet maps (view and marker layers) the pickers create.           *)
(*                                                                         *)
(* JavaScript values are tagged records, so that a number, a string, null  *)
(* and undefined stay distinct.  A number is a fixed-point integer with    *)
(* FracDigits decimal digits (1.5 is 15000), a string is a sequence of     *)
(* one-character strings.                                                  *)
(*                                                                         *)
(* osmpicker.js holds two versions of OsmPicker; the model follows the     *)
(* first (lines 18-165), which takes one settings object and an optional   *)
(* mapElement.  The handlers, getMap, setInputFromLatLng,                  *)
(* _getLatLngFromInput and _setMarker are the same in both.                *)
(*                                                                         *)
(* Leaflet is modelled at its interface: L.latLng and the LatLng           *)
(* constructor (which throws on a component that is not a number), L.map   *)
(* (which throws on a missing or already used container), setView, and     *)
(* the marker layers addTo and removeLayer keep on a map.                  *)
(***************************************************************************)
EXTENDS Integers, Sequences, FiniteSets, TLC

(***************************************************************************)
(* Bounds of the model.                                                    *)
(***************************************************************************)
\* Marker objects L.marker() creates in one run (Leaflet stamps each layer
\* from one global counter).
MaxMarkers == 4
\* The same on a page with two pickers.
MaxMarkersTwo == 2

\* Decimal digits a number of the model keeps after the point.
FracDigits == 4
Scale == 10 ^ FracDigits
\* The number whose decimal form is ip.d (one fractional digit d).
Dec(ip, d) == IF ip < 0 THEN ip * Scale - d * (Scale \div 10)
              ELSE ip * Scale + d * (Scale \div 10)

(***************************************************************************)
(* JavaScript values.                                                      *)
(***************************************************************************)
Null == [t |-> "null"]
Undefined == [t |-> "undefined"]
NaN == [t |-> "nan"]
Num(n) == [t |-> "num", v |-> n]
Str(s) == [t |-> "str", s |-> s]
\* A Leaflet LatLng object (lat and lng are numbers).
LatLng(lat, lng) == [t |-> "latlng", lat |-> lat, lng |-> lng]
\* A JavaScript array.
Arr(items) == [t |-> "array", items |-> items]
\* A plain object with lat and lng properties.
Obj(lat, lng) == [t |-> "object", lat |-> lat, lng |-> lng]
\* The outcome of an expression that threw.
Throw == [t |-> "throw"]

(***************************************************************************)
(* Number <-> string conversions of JavaScript, as the code relies on them *)
(* in string concatenation, Array.join and Leaflet's unary plus.           *)
(***************************************************************************)
DigitChars == <<"0", "1", "2", "3", "4", "5", "6", "7", "8", "9">>
DigitChar(d) == DigitChars[d + 1]
IsDigit(c) == \E d \in 0..9 : DigitChars[d + 1] = c
DigitVal(c) == CHOOSE d \in 0..9 : DigitChars[d + 1] = c

Abs(n) == IF n < 0 THEN -n ELSE n

RECURSIVE NatToStr(_)
\* The decimal digits of a natural number, no leading zeros.
NatToStr(k) ==
    IF k < 10 THEN <<DigitChar(k)>>
    ELSE NatToStr(k \div 10) \o <<DigitChar(k % 10)>>

RECURSIVE PadLeft(_, _)
PadLeft(s, n) == IF Len(s) >= n THEN s ELSE PadLeft(<<"0">> \o s, n)

RECURSIVE StripZeros(_)
\* A digit string without its trailing zeros.
StripZeros(s) ==
    IF s # <<>> /\ s[Len(s)] = "0" THEN StripZeros(SubSeq(s, 1, Len(s) - 1))
    ELSE s

\* Number::toString: sign, integer part, and the fraction only when it is
\* not zero ("10" for 10.0, "1.5", "-2.5", "0" for 0).
NumToStr(n) ==
    LET a == Abs(n)
        frac == StripZeros(PadLeft(NatToStr(a % Scale), FracDigits))
    IN  (IF n < 0 THEN <<"-">> ELSE <<>>)
        \o NatToStr(a \div Scale)
        \o (IF frac = <<>> THEN <<>> ELSE <<".">> \o frac)

\* ToString of a value that is a number or a string.
ToStr(x) == IF x.t = "num" THEN NumToStr(x.v) ELSE x.s

RECURSIVE Trim(_)
\* A string without leading and trailing spaces.
Trim(s) ==
    IF s # <<>> /\ s[1] = " " THEN Trim(Tail(s))
    ELSE IF s # <<>> /\ s[Len(s)] = " " THEN Trim(SubSeq(s, 1, Len(s) - 1))
    ELSE s

RECURSIVE DigitsVal(_)
\* The value of a digit string (0 for the empty one).
DigitsVal(s) ==
    IF s = <<>> THEN 0
    ELSE 10 * DigitsVal(SubSeq(s, 1, Len(s) - 1)) + DigitVal(s[Len(s)])

RECURSIVE PadRight(_, _)
PadRight(s, n) == IF Len(s) >= n THEN s ELSE PadRight(s \o <<"0">>, n)

AllDigits(s) == \A k \in 1..Len(s) : IsDigit(s[k])

\* An unsigned decimal literal: digits, optionally a point and digits.
UnsignedToNumber(s) ==
    LET dots == {k \in 1..Len(s) : s[k] = "."}
        p == IF dots = {} THEN Len(s) + 1 ELSE CHOOSE k \in dots : TRUE
        ip == SubSeq(s, 1, p - 1)
        fp == SubSeq(s, p + 1, Len(s))
    IN  IF /\ Cardinality(dots) <= 1
           /\ AllDigits(ip) /\ AllDigits(fp)
           /\ Len(ip) + Len(fp) >= 1
           /\ Len(fp) <= FracDigits
        THEN Num(DigitsVal(ip) * Scale + DigitsVal(PadRight(fp, FracDigits)))
        ELSE NaN

\* StringToNumber (unary plus on a string): spaces trimmed, "" is 0, an
\* optional sign, a decimal literal; anything else is NaN.
StrToNumber(s) ==
    LET r == Trim(s)
    IN  IF r = <<>> THEN Num(0)
        ELSE IF r[1] = "-"
             THEN LET u == UnsignedToNumber(Tail(r))
                  IN  IF u = NaN THEN NaN ELSE Num(-u.v)
        ELSE IF r[1] = "+" THEN UnsignedToNumber(Tail(r))
        ELSE UnsignedToNumber(r)

\* ToNumber of a value that is a number or a string.
ToNumber(x) == IF x.t = "num" THEN x ELSE StrToNumber(x.s)

RECURSIVE Split(_, _)
\* String.prototype.split on a one-character separator.
Split(s, sep) ==
    LET hits == {k \in 1..Len(s) : s[k] = sep}
    IN  IF hits = {} THEN <<s>>
        ELSE LET p == CHOOSE k \in hits : \A m \in hits : k <= m
             IN  <<SubSeq(s, 1, p - 1)>> \o Split(SubSeq(s, p + 1, Len(s)), sep)

RECURSIVE Join(_, _)
\* Array.prototype.join of the elements' strings.
Join(items, sep) ==
    IF items = <<>> THEN <<>>
    ELSE IF Len(items) = 1 THEN ToStr(items[1])
    ELSE ToStr(items[1]) \o <<sep>> \o Join(Tail(items), sep)

(***************************************************************************)
(* Leaflet, as far as the picker uses it.                                  *)
(***************************************************************************)
\* JavaScript truthiness of the values a setting can hold.
Truthy(x) ==
    CASE x.t = "undefined" -> FALSE
      [] x.t = "null" -> FALSE
      [] x.t = "nan" -> FALSE
      [] x.t = "num" -> x.v # 0
      [] x.t = "str" -> x.s # <<>>
      [] OTHER -> TRUE

IsNaN(x) == ToNumber(x) = NaN

\* new L.LatLng(lat, lng): throws on a component that is not a number,
\* else keeps +lat and +lng.
NewLatLng(lat, lng) ==
    IF IsNaN(lat) \/ IsNaN(lng) THEN Throw
    ELSE LatLng(ToNumber(lat).v, ToNumber(lng).v)

\* L.latLng(a): a LatLng as it is, an array through the constructor, null
\* and undefined as they are, an object with lat and lng through the
\* constructor.
ToLatLng(a) ==
    CASE a.t = "latlng" -> a
      [] a.t = "array" ->
            IF Len(a.items) \in {2, 3} THEN NewLatLng(a.items[1], a.items[2])
            ELSE Null
      [] a.t = "object" -> NewLatLng(a.lat, a.lng)
      [] OTHER -> a

\* L.latLng.apply(this, parts) on the strings of a split: null with one
\* part, else the constructor on the first two.
LatLngApply(parts) ==
    IF Len(parts) < 2 THEN Null
    ELSE NewLatLng(Str(parts[1]), Str(parts[2]))

(***************************************************************************)
(* The document and the instances.                                         *)
(***************************************************************************)
Inst == {1, 2}
Node(k) == [t |-> "node", key |-> k]
\* The input element of instance i, the display region the page supplies
\* for it, and the region its construction synthesizes.
InputNode(i) == <<"in1", "in2">>[i]
GivenDiv(i) == <<"map1", "map2">>[i]
NewDiv(i) == <<"new1", "new2">>[i]
InputId(i) == <<"loc1", "loc2">>[i]
Containers == {GivenDiv(i) : i \in Inst} \cup {NewDiv(i) : i \in Inst}

VARIABLES
    page,           \* the pickers the page constructs: {1} or {1, 2}
    doc,            \* the document's elements in tree order: [key, id]
    value,          \* value[i]: the text of input element i
    pc,             \* pc[i]: "none", "ready" (constructed), "failed" (threw)
    _inputElement,  \* private fields of instance i
    _mapElement,
    _map,
    _marker,
    hasMap,         \* hasMap[k]: container k holds a Leaflet map
    view,           \* view[k]: center and zoom of the map on container k
    layers,         \* layers[k]: the marker layers of the map on container k
    nextStamp,      \* the stamp of the next marker object
    last            \* the last operation: what, on which instance, its result

vars == <<page, doc, value, pc, _inputElement, _mapElement, _map, _marker,
          hasMap, view, layers, nextStamp, last>>

NoView == [t |-> "unset"]
View(c, z) == [t |-> "view", center |-> c, zoom |-> z]
Marker(id) == [t |-> "marker", id |-> id]
MapOn(k) == [t |-> "map", container |-> k]
\* setMarker is the argument of the call of _setMarker the operation made,
\* NoCall when it made none.
NoCall == [t |-> "nocall"]
Last(op, i, arg, threw, ret, setMarker) ==
    [op |-> op, inst |-> i, arg |-> arg, threw |-> threw, ret |-> ret,
     setMarker |-> setMarker]

\* document.getElementById: the first element in tree order with the id.
GetElementById(d, id) ==
    LET hits == {k \in 1..Len(d) : d[k].id = id}
    IN  IF hits = {} THEN Null
        ELSE Node(d[CHOOSE k \in hits : \A m \in hits : k <= m].key)

\* _insertAfter: the new element right after the reference element.
InsertAfter(d, newNode, referenceKey) ==
    LET p == CHOOSE k \in 1..Len(d) : d[k].key = referenceKey
    IN  SubSeq(d, 1, p) \o <<newNode>> \o SubSeq(d, p + 1, Len(d))

\* _getLatLngFromInput on the text v.
GetLatLngFromInput(v) ==
    IF v # <<>> THEN LatLngApply(Split(v, ",")) ELSE Null

\* _setMarker(latLng) on a map with marker layers lyrs, with mk the
\* instance's _marker and stamp the next marker's stamp.  The old marker is
\* removed first.  L.marker(latLng).addTo(_map) registers the new layer with
\* the map and then positions its icon: for a null latLng the positioning
\* throws, after the layer was registered and before _marker is assigned.
SetMarker(lyrs, mk, stamp, latLng) ==
    LET removed == IF mk # Null THEN {l \in lyrs : l.id # mk.id} ELSE lyrs
        pos == ToLatLng(latLng)
    IN  IF pos = Throw
        THEN [layers |-> removed, marker |-> mk, threw |-> TRUE]
        ELSE IF pos = Null
        THEN [layers |-> removed \cup {[id |-> stamp, latlng |-> Null]},
              marker |-> mk, threw |-> TRUE]
        ELSE [layers |-> removed \cup {[id |-> stamp, latlng |-> pos]},
              marker |-> Marker(stamp), threw |-> FALSE]

(***************************************************************************)
(* The inputs the model draws from.                                        *)
(***************************************************************************)
\* "1.5,-2.5", "5" and "a,b"
Text15m25 == <<"1", ".", "5", ",", "-", "2", ".", "5">>
Text5 == <<"5">>
TextAB == <<"a", ",", "b">>
\* The texts a user types into an input element.
InputTexts == {<<>>, Text15m25, Text5, TextAB}
InputKeys == {InputNode(i) : i \in Inst}

\* The coordinates a map click delivers (LatLng objects of Leaflet).
ClickCoords == {LatLng(Dec(10, 0), Dec(20, 0)), LatLng(Dec(1, 5), Dec(-2, 5))}

\* The coordinates setInputFromLatLng is called with: an array of numbers,
\* an array of numeric strings, a LatLng object, a plain object.
SetArgs ==
    { Arr(<<Num(Dec(1, 5)), Num(Dec(-2, 5))>>),
      Arr(<<Str(<<"1", "0">>), Str(<<"2", "0">>)>>),
      LatLng(Dec(10, 0), Dec(20, 0)),
      Obj(Num(Dec(1, 5)), Num(Dec(-2, 5))) }

\* L.latLng(47.4953, 19.0645) and 14, the defaults of _initialize.
FallbackLatLng ==
    LatLng(474953 * (Scale \div 10000), 190645 * (Scale \div 10000))
FallbackZoom == 14

\* The settings instance i is constructed with: the input element by id
\* (selector) or by reference (inputElement), the display region given
\* (mapElement) or not, the default view's latLng and zoom given or not
\* (zoom 0 and zoom 5 are both zoom levels of Leaflet).
Settings(sel, inp, mapEl, latLng, zoom) ==
    [selector |-> sel, inputElement |-> inp, mapElement |-> mapEl,
     latLng |-> latLng, zoom |-> zoom]
DefaultLatLngArg == Arr(<<Str(<<"1", "0">>), Str(<<"2", "0">>)>>)
SettingsFor(i) ==
    { Settings(Str(<<InputId(i)>>), Undefined, Undefined, Undefined, Undefined),
      Settings(Str(<<InputId(i)>>), Undefined, Undefined, Undefined, Num(0)),
      Settings(Str(<<InputId(i)>>), Undefined, Undefined, DefaultLatLngArg, Num(5)),
      Settings(Undefined, Node(InputNode(i)), Node(GivenDiv(i)), DefaultLatLngArg, Num(5)),
      Settings(Undefined, Node(InputNode(i)), Undefined, Undefined, Undefined) }
\* The same on a page with two pickers: the three ways to name the input
\* element and the display region, with the default view left out.
SettingsForTwo(i) ==
    { Settings(Str(<<InputId(i)>>), Undefined, Undefined, Undefined, Undefined),
      Settings(Undefined, Node(InputNode(i)), Node(GivenDiv(i)), Undefined, Undefined),
      Settings(Undefined, Node(InputNode(i)), Undefined, Undefined, Undefined) }
\* The texts, click coordinates and setInputFromLatLng arguments on a page
\* with two pickers.
InputTextsTwo == {<<>>, Text15m25}
ClickCoordsTwo == {LatLng(Dec(10, 0), Dec(20, 0))}
SetArgsTwo == {Arr(<<Num(Dec(1, 5)), Num(Dec(-2, 5))>>)}

(***************************************************************************)
(* Init: the page is loaded, each input element with the text of its      *)
(* value attribute; no picker is constructed yet.                          *)
(***************************************************************************)
\* The marker objects a run on this page may create.
Budget == IF page = {1} THEN MaxMarkers ELSE MaxMarkersTwo

InitPage(pickers) ==
    /\ page = pickers
    /\ doc = << [key |-> InputNode(1), id |-> <<InputId(1)>>],
                [key |-> GivenDiv(1), id |-> <<InputId(1), "-map">>],
                [key |-> InputNode(2), id |-> <<InputId(2)>>],
                [key |-> GivenDiv(2), id |-> <<InputId(2), "-map">>] >>
    /\ value \in [InputKeys -> IF pickers = {1} THEN InputTexts ELSE InputTextsTwo]
    /\ \A i \in Inst \ pickers : value[InputNode(i)] = <<>>
    /\ pc = [i \in Inst |-> "none"]
    /\ _inputElement = [i \in Inst |-> Null]
    /\ _mapElement = [i \in Inst |-> Null]
    /\ _map = [i \in Inst |-> Null]
    /\ _marker = [i \in Inst |-> Null]
    /\ hasMap = [k \in Containers |-> FALSE]
    /\ view = [k \in Containers |-> NoView]
    /\ layers = [k \in Containers |-> {}]
    /\ nextStamp = 1
    /\ last = Last("init", 0, Undefined, FALSE, Undefined, NoCall)

(***************************************************************************)
(* new OsmPicker(s) for instance i: _initialize.                           *)
(***************************************************************************)
\* String(selector), as the concatenation with '-osm-picker' converts it.
SelectorStr(sel) == IF sel = Undefined THEN <<"undefined">> ELSE sel.s

Initialize(i, s) ==
    LET dvLatLng == IF Truthy(s.latLng) THEN s.latLng ELSE FallbackLatLng
        dvZoom == IF Truthy(s.zoom) THEN s.zoom ELSE Num(FallbackZoom)
        input == IF Truthy(s.inputElement) THEN s.inputElement
                 ELSE GetElementById(doc, SelectorStr(s.selector))
        given == Truthy(s.mapElement)
        mapId == SelectorStr(s.selector) \o <<"-osm-picker">>
        doc1 == IF given THEN doc
                ELSE InsertAfter(doc, [key |-> NewDiv(i), id |-> mapId], input.key)
        mapEl == IF given THEN s.mapElement ELSE Node(NewDiv(i))
        \* L.map(element) or L.map(id): throws when the id resolves to no
        \* element or the container already holds a map.
        container == IF given THEN s.mapElement ELSE GetElementById(doc1, mapId)
        mapThrows == container = Null \/ hasMap[container.key]
        k == container.key
        inputLatLng == GetLatLngFromInput(value[input.key])
        center == ToLatLng(IF Truthy(inputLatLng) THEN inputLatLng ELSE dvLatLng)
        viewThrows == inputLatLng = Throw \/ center \in {Throw, Null}
        threw == mapThrows \/ viewThrows
        mark == ~threw /\ Truthy(inputLatLng)
        sm == SetMarker(layers[k], _marker[i], nextStamp, inputLatLng)
    IN  /\ i \in page
        /\ pc[i] = "none"
        /\ input # Null
        /\ mark => nextStamp <= Budget
        /\ doc' = doc1
        /\ _inputElement' = [_inputElement EXCEPT ![i] = input]
        /\ _mapElement' = [_mapElement EXCEPT ![i] = mapEl]
        /\ _map' = IF mapThrows THEN _map ELSE [_map EXCEPT ![i] = MapOn(k)]
        /\ hasMap' = IF mapThrows THEN hasMap ELSE [hasMap EXCEPT ![k] = TRUE]
        /\ view' = IF threw THEN view
                   ELSE [view EXCEPT ![k] = View(center, dvZoom.v)]
        /\ layers' = IF mark THEN [layers EXCEPT ![k] = sm.layers] ELSE layers
        /\ _marker' = IF mark THEN [_marker EXCEPT ![i] = sm.marker] ELSE _marker
        /\ nextStamp' = IF mark THEN nextStamp + 1 ELSE nextStamp
        /\ pc' = [pc EXCEPT ![i] = IF threw THEN "failed" ELSE "ready"]
        /\ last' = Last("new", i, s, threw, Undefined,
                        IF mark THEN inputLatLng ELSE NoCall)
        /\ UNCHANGED <<page, value>>

(***************************************************************************)
(* The map's click handler of instance i, for a click at latlng.           *)
(***************************************************************************)
\* A variant of the click handler that also recenters the view, and one that
\* keeps the marker in a variable all instances share.
ClickRecentering(i, latlng) ==
    LET k == _map[i].container
        sm == SetMarker(layers[k], _marker[i], nextStamp, latlng)
    IN  /\ pc[i] = "ready"
        /\ nextStamp <= Budget
        /\ value' = [value EXCEPT ![_inputElement[i].key] =
                        NumToStr(latlng.lat) \o <<",">> \o NumToStr(latlng.lng)]
        /\ view' = [view EXCEPT ![k] = View(latlng, view[k].zoom)]
        /\ layers' = [layers EXCEPT ![k] = sm.layers]
        /\ _marker' = [_marker EXCEPT ![i] = sm.marker]
        /\ nextStamp' = nextStamp + 1
        /\ last' = Last("click", i, latlng, sm.threw, Undefined, latlng)
        /\ UNCHANGED <<page, doc, pc, _inputElement, _mapElement, _map, hasMap>>

ClickSharedMarker(i, latlng) ==
    LET k == _map[i].container
        sm == SetMarker(layers[k], _marker[i], nextStamp, latlng)
    IN  /\ pc[i] = "ready"
        /\ nextStamp <= Budget
        /\ value' = [value EXCEPT ![_inputElement[i].key] =
                        NumToStr(latlng.lat) \o <<",">> \o NumToStr(latlng.lng)]
        /\ layers' = [layers EXCEPT ![k] = sm.layers]
        /\ _marker' = [j \in Inst |-> sm.marker]
        /\ nextStamp' = nextStamp + 1
        /\ last' = Last("click", i, latlng, sm.threw, Undefined, latlng)
        /\ UNCHANGED <<page, doc, pc, _inputElement, _mapElement, _map, hasMap, view>>

Click(i, latlng) ==
    LET k == _map[i].container
        sm == SetMarker(layers[k], _marker[i], nextStamp, latlng)
    IN  /\ pc[i] = "ready"
        /\ nextStamp <= Budget
        /\ value' = [value EXCEPT ![_inputElement[i].key] =
                        NumToStr(latlng.lat) \o <<",">> \o NumToStr(latlng.lng)]
        /\ layers' = [layers EXCEPT ![k] = sm.layers]
        /\ _marker' = [_marker EXCEPT ![i] = sm.marker]
        /\ nextStamp' = nextStamp + 1
        /\ last' = Last("click", i, latlng, sm.threw, Undefined, latlng)
        /\ UNCHANGED <<page, doc, pc, _inputElement, _mapElement, _map, hasMap, view>>

(***************************************************************************)
(* The user commits the text txt in the input element of instance i and   *)
(* the element's change listener runs.                                     *)
(***************************************************************************)
Change(i, txt) ==
    LET k == _map[i].container
        latLng == GetLatLngFromInput(txt)
        sm == SetMarker(layers[k], _marker[i], nextStamp, latLng)
    IN  /\ pc[i] = "ready"
        /\ value' = [value EXCEPT ![_inputElement[i].key] = txt]
        /\ IF latLng = Throw
           THEN /\ last' = Last("change", i, Str(txt), TRUE, Undefined, NoCall)
                /\ UNCHANGED <<layers, _marker, nextStamp>>
           ELSE /\ nextStamp <= Budget
                /\ layers' = [layers EXCEPT ![k] = sm.layers]
                /\ _marker' = [_marker EXCEPT ![i] = sm.marker]
                /\ nextStamp' = nextStamp + 1
                /\ last' = Last("change", i, Str(txt), sm.threw, Undefined, latLng)
        /\ UNCHANGED <<page, doc, pc, _inputElement, _mapElement, _map, hasMap, view>>

(***************************************************************************)
(* The public methods.                                                     *)
(***************************************************************************)
\* A variant that returns the map's element instead of the map.
GetMapElement(i) ==
    /\ pc[i] = "ready"
    /\ last' = Last("getMap", i, Undefined, FALSE, _mapElement[i], NoCall)
    /\ UNCHANGED <<page, doc, value, pc, _inputElement, _mapElement, _map, _marker,
                   hasMap, view, layers, nextStamp>>

GetMap(i) ==
    /\ pc[i] = "ready"
    /\ last' = Last("getMap", i, Undefined, FALSE, _map[i], NoCall)
    /\ UNCHANGED <<page, doc, value, pc, _inputElement, _mapElement, _map, _marker,
                   hasMap, view, layers, nextStamp>>

\* A variant that writes the longitude first.
CoordTextLngFirst(latLng) ==
    IF latLng.t = "array" THEN Join(<<latLng.items[2], latLng.items[1]>>, ",")
    ELSE IF latLng.t = "latlng"
         THEN NumToStr(latLng.lng) \o <<",">> \o NumToStr(latLng.lat)
    ELSE ToStr(latLng.lng) \o <<",">> \o ToStr(latLng.lat)

\* A variant that writes the longitude first for an object only.
CoordTextObjectLngFirst(latLng) ==
    IF latLng.t = "array" THEN Join(latLng.items, ",")
    ELSE IF latLng.t = "latlng"
         THEN NumToStr(latLng.lng) \o <<",">> \o NumToStr(latLng.lat)
    ELSE ToStr(latLng.lng) \o <<",">> \o ToStr(latLng.lat)

\* The text setInputFromLatLng writes for latLng.
CoordText(latLng) ==
    IF latLng.t = "array" THEN Join(latLng.items, ",")
    ELSE IF latLng.t = "latlng"
         THEN NumToStr(latLng.lat) \o <<",">> \o NumToStr(latLng.lng)
    ELSE ToStr(latLng.lat) \o <<",">> \o ToStr(latLng.lng)

\* What setInputFromLatLng(latLng) of instance i leaves: the input's text,
\* the view and the markers of its map, and its _marker.
SetInputOutcome(i, latLng) ==
    LET k == _map[i].container
        center == ToLatLng(latLng)
        viewThrows == center \in {Throw, Null}
        sm == SetMarker(layers[k], _marker[i], nextStamp, latLng)
    IN  [text |-> CoordText(latLng),
         \* _map.setView(latLng): the zoom is kept.  (The model does not
         \* follow what a view reset does to a marker layer without a
         \* position, which only exists after the failure of C1.)
         view |-> IF viewThrows THEN view[k] ELSE View(center, view[k].zoom),
         layers |-> IF viewThrows THEN layers[k] ELSE sm.layers,
         marker |-> IF viewThrows THEN _marker[i] ELSE sm.marker,
         called |-> ~viewThrows,
         threw |-> viewThrows \/ sm.threw]

SetInputFromLatLng(i, latLng) ==
    LET k == _map[i].container
        center == ToLatLng(latLng)
        viewThrows == center \in {Throw, Null}
        sm == SetMarker(layers[k], _marker[i], nextStamp, latLng)
    IN  /\ pc[i] = "ready"
        /\ ~viewThrows => nextStamp <= Budget
        /\ value' = [value EXCEPT ![_inputElement[i].key] = CoordText(latLng)]
        /\ view' = IF viewThrows THEN view
                   ELSE [view EXCEPT ![k] = View(center, view[k].zoom)]
        /\ layers' = IF viewThrows THEN layers
                     ELSE [layers EXCEPT ![k] = sm.layers]
        /\ _marker' = IF viewThrows THEN _marker
                      ELSE [_marker EXCEPT ![i] = sm.marker]
        /\ nextStamp' = IF viewThrows THEN nextStamp ELSE nextStamp + 1
        /\ last' = Last("setInputFromLatLng", i, latLng,
                        viewThrows \/ sm.threw, Undefined,
                        IF viewThrows THEN NoCall ELSE latLng)
        /\ UNCHANGED <<page, doc, pc, _inputElement, _mapElement, _map, hasMap>>

Next ==
    \/ \E i \in Inst :
          \E s \in (IF page = {1} THEN SettingsFor(i) ELSE SettingsForTwo(i)) :
              Initialize(i, s)
    \/ \E i \in Inst :
          \E latlng \in (IF page = {1} THEN ClickCoords ELSE ClickCoordsTwo) :
              Click(i, latlng)
    \/ \E i \in Inst :
          \E txt \in (IF page = {1} THEN InputTexts ELSE InputTextsTwo) :
              Change(i, txt)
    \/ \E i \in Inst : GetMap(i)
    \/ \E i \in Inst :
          \E latLng \in (IF page = {1} THEN SetArgs ELSE SetArgsTwo) :
              SetInputFromLatLng(i, latLng)

\* A page with one picker.
Init == InitPage({1})
Spec == Init /\ [][Next]_vars

\* A page with two pickers.
InitTwo == InitPage(Inst)
SpecTwo == InitTwo /\ [][Next]_vars

(***************************************************************************)
(* What a picker shows.                                                    *)
(***************************************************************************)
Ready(i) == pc[i] = "ready"
\* The text of the instance's input element.
InputText(i) == value[_inputElement[i].key]
\* The marker layers on the instance's map, and the map's view.
Displayed(i) == layers[_map[i].container]
ViewOf(i) == view[_map[i].container]
\* The two marker states of the picker: no marker on the map, and exactly
\* one marker on the map, at c.
NoMarker(i) == Displayed(i) = {}
MarkerAt(i, c) == \E m \in Displayed(i) : Displayed(i) = {m} /\ m.latlng = c

(***************************************************************************)
(* C1: after an input-change event that fires while the input's text is    *)
(* empty, no marker is displayed on the map (state NoMarker), whatever the *)
(* marker state was before.                                                *)
(*                                                                         *)
(* The listener passes the null of _getLatLngFromInput to _setMarker:      *)
(* the old marker is removed, and L.marker(null).addTo(_map) leaves a      *)
(* marker layer without a position on the map before it throws.           *)
(***************************************************************************)
C1_EmptyChangeGivesNoMarker ==
    (last.op = "change" /\ last.arg = Str(<<>>)) => NoMarker(last.inst)

(***************************************************************************)
(* C2: in every state after construction the map of an instance displays   *)
(* at most one marker, and a displayed marker is the one the instance      *)
(* records as its own (_marker).                                           *)
(***************************************************************************)
C2_AtMostOneOwnedMarker ==
    \A i \in Inst :
        Ready(i) =>
            /\ Cardinality(Displayed(i)) <= 1
            /\ \A m \in Displayed(i) : _marker[i] = Marker(m.id)

(***************************************************************************)
(* C3: after the click handler completes for a click at c, from any prior  *)
(* state, the input's text is the text form of c (lat, a comma, lng) and   *)
(* the marker state is MarkerAt(c), any earlier marker being replaced.     *)
(*                                                                         *)
(* It fails after an empty input change (C1): the marker layer that        *)
(* change left on the map is not the instance's _marker, so the click      *)
(* does not remove it.                                                     *)
(***************************************************************************)
C3_ClickSetsTextAndMarker ==
    last.op = "click" =>
        /\ InputText(last.inst) =
               NumToStr(last.arg.lat) \o <<",">> \o NumToStr(last.arg.lng)
        /\ MarkerAt(last.inst, last.arg)

(***************************************************************************)
(* C4: after setInputFromLatLng(c) returns, for a well-formed c and from   *)
(* any prior state, the input's text is the text form of c, the map view   *)
(* is centered on c and the marker state is MarkerAt(c).                   *)
(*                                                                         *)
(* It fails after an empty input change (C1), as C3 does.                  *)
(***************************************************************************)
C4_SetFromCoordinate ==
    last.op = "setInputFromLatLng" =>
        /\ InputText(last.inst) = CoordText(last.arg)
        /\ ViewOf(last.inst).center = ToLatLng(last.arg)
        /\ MarkerAt(last.inst, ToLatLng(last.arg))

(***************************************************************************)
(* C5: at the end of construction, if the input's text parses to a         *)
(* coordinate c0 the view is centered on c0 at the configured default zoom *)
(* and the state is MarkerAt(c0); otherwise the view is the configured     *)
(* default coordinate and zoom ((47.4953, 19.0645) and 14 when none are    *)
(* configured) and the state is NoMarker.                                  *)
(*                                                                         *)
(* It fails for a configured zoom of 0, which _initialize replaces by 14.  *)
(***************************************************************************)
ConfiguredZoom(s) == IF s.zoom = Undefined THEN FallbackZoom ELSE s.zoom.v
ConfiguredLatLng(s) ==
    IF s.latLng = Undefined THEN FallbackLatLng ELSE ToLatLng(s.latLng)

C5_ViewAndMarkerAfterConstruction ==
    (last.op = "new" /\ ~last.threw) =>
        LET i == last.inst
            c0 == GetLatLngFromInput(InputText(i))
        IN  IF c0.t = "latlng"
            THEN /\ ViewOf(i) = View(c0, ConfiguredZoom(last.arg))
                 /\ MarkerAt(i, c0)
            ELSE /\ ViewOf(i) = View(ConfiguredLatLng(last.arg),
                                     ConfiguredZoom(last.arg))
                 /\ NoMarker(i)

(***************************************************************************)
(* C6: round trip: after setInputFromLatLng(c), for a well-formed c,       *)
(* parsing the input's text with _getLatLngFromInput gives a coordinate    *)
(* with the latitude and longitude of c.                                   *)
(***************************************************************************)
C6_RoundTrip ==
    last.op = "setInputFromLatLng" =>
        GetLatLngFromInput(InputText(last.inst)) = ToLatLng(last.arg)

\* setInputFromLatLng([1.5, -2.5]) has written "1.5,-2.5", which parses to
\* (1.5, -2.5).
C6_Witness ==
    /\ last.op = "setInputFromLatLng"
    /\ last.arg = Arr(<<Num(Dec(1, 5)), Num(Dec(-2, 5))>>)
    /\ InputText(last.inst) = Text15m25
    /\ GetLatLngFromInput(InputText(last.inst)) = LatLng(Dec(1, 5), Dec(-2, 5))

(***************************************************************************)
(* C7: neither a map click nor an input-change event changes the map       *)
(* view: center and zoom after the handler are those before it.            *)
(***************************************************************************)
C7_HandlersKeepView ==
    [][last'.op \in {"click", "change"} => view' = view]_vars

\* A click has placed a marker away from the center of the view.
C7_Witness ==
    /\ last.op = "click"
    /\ ViewOf(last.inst).t = "view"
    /\ ViewOf(last.inst).center # last.arg
    /\ \E m \in Displayed(last.inst) : m.latlng = last.arg

(***************************************************************************)
(* C8: an input-change event fired while the text is T, two numeric        *)
(* components separated by a comma, leaves the instance in MarkerAt(c)     *)
(* with c's latitude and longitude the numbers of T's components, from     *)
(* either prior state, and leaves the text unchanged.                      *)
(*                                                                         *)
(* It fails after an empty input change (C1), as C3 does.                  *)
(***************************************************************************)
TwoNumbers(txt) ==
    LET parts == Split(txt, ",")
    IN  /\ Len(parts) = 2
        /\ \A k \in 1..2 : parts[k] # <<>> /\ StrToNumber(parts[k]) # NaN

C8_ValidChangePlacesMarker ==
    (last.op = "change" /\ TwoNumbers(last.arg.s)) =>
        LET parts == Split(last.arg.s, ",")
            c == LatLng(StrToNumber(parts[1]).v, StrToNumber(parts[2]).v)
        IN  /\ MarkerAt(last.inst, c)
            /\ InputText(last.inst) = last.arg.s

(***************************************************************************)
(* C9: on a page with two pickers, a map click, an input-change event or   *)
(* a setInputFromLatLng call on one instance leaves the other instance's   *)
(* marker state and map view unchanged.                                    *)
(***************************************************************************)
C9_OtherInstanceUnchanged ==
    [][last'.op \in {"click", "change", "setInputFromLatLng"} =>
          \A j \in Inst \ {last'.inst} :
              /\ _marker'[j] = _marker[j]
              /\ _map'[j] = _map[j]
              /\ _map[j] # Null =>
                     /\ layers'[_map[j].container] = layers[_map[j].container]
                     /\ view'[_map[j].container] = view[_map[j].container]]_vars

\* Instance 1 was clicked while instance 2 shows a marker elsewhere.
C9_Witness ==
    /\ Ready(1) /\ Ready(2)
    /\ last.op = "click" /\ last.inst = 1
    /\ MarkerAt(1, last.arg)
    /\ \E m \in Displayed(2) : m.latlng # last.arg /\ _marker[2] = Marker(m.id)

(***************************************************************************)
(* C10: getMap() returns the map created at construction, the same on      *)
(* every call whatever clicks, input changes and setInputFromLatLng calls  *)
(* came between, and changes neither the input text, the marker state nor  *)
(* the map view.                                                           *)
(***************************************************************************)
C10_GetMapIsPure ==
    [][/\ \A i \in Inst : _map[i] # Null => _map'[i] = _map[i]
       /\ last'.op = "getMap" =>
              /\ last'.ret = _map[last'.inst]
              /\ last'.ret.t = "map"
              /\ hasMap[last'.ret.container]
              /\ value' = value
              /\ layers' = layers
              /\ _marker' = _marker
              /\ view' = view]_vars

\* getMap() was called after markers were placed, and returned the map.
C10_Witness ==
    /\ last.op = "getMap"
    /\ nextStamp > 2
    /\ last.ret = _map[last.inst]
    /\ Displayed(last.inst) # {}

(***************************************************************************)
(* C11: _setMarker is never invoked with a null coordinate: on an          *)
(* input-change event whose text parses to null (empty text) it is not     *)
(* called at all, and every call in any run carries a coordinate.          *)
(*                                                                         *)
(* The change listener calls _setMarker(_getLatLngFromInput()) without     *)
(* the test the constructor makes (if (inputLatLng)).                      *)
(***************************************************************************)
C11_SetMarkerNeverGetsNull ==
    /\ last.setMarker # Null
    /\ (last.op = "change" /\ GetLatLngFromInput(last.arg.s) = Null) =>
           last.setMarker = NoCall

(***************************************************************************)
(* C12: the normalisation of the settings replaces only absent options:    *)
(* a constructed picker's initial view has exactly the supplied zoom       *)
(* (0 included), and with an empty input it is centred on exactly the      *)
(* supplied defaultView.latLng; zoom 14 and (47.4953, 19.0645) are used    *)
(* only for an option that was not supplied.                               *)
(*                                                                         *)
(* settings.defaultView.zoom || 14 replaces the supplied zoom 0 as well.   *)
(***************************************************************************)
C12_OnlyAbsentOptionsReplaced ==
    (last.op = "new" /\ ~last.threw) =>
        LET i == last.inst
            s == last.arg
        IN  /\ s.zoom # Undefined => ViewOf(i).zoom = s.zoom.v
            /\ s.zoom = Undefined => ViewOf(i).zoom = FallbackZoom
            /\ InputText(i) = <<>> =>
                   ViewOf(i).center = IF s.latLng # Undefined
                                      THEN ToLatLng(s.latLng)
                                      ELSE FallbackLatLng

(***************************************************************************)
(* C13: a construction without settings.mapElement attaches its map to     *)
(* the element this same construction created and inserted right after     *)
(* its own input element; this holds for every picker of a page with       *)
(* several pickers, whether the input was named by settings.selector or    *)
(* given as settings.inputElement.                                         *)
(*                                                                         *)
(* The created element gets the id settings.selector + '-osm-picker' and   *)
(* the map is created from that id: without a selector every picker's      *)
(* element has the id 'undefined-osm-picker', and the id resolves to the   *)
(* first of them in the document.                                          *)
(***************************************************************************)
C13_MapOnOwnCreatedElement ==
    (last.op = "new" /\ last.arg.mapElement = Undefined) =>
        LET i == last.inst
            p == CHOOSE k \in 1..Len(doc) : doc[k].key = _inputElement[i].key
        IN  /\ _map[i] = MapOn(NewDiv(i))
            /\ p < Len(doc)
            /\ doc[p + 1].key = NewDiv(i)

(***************************************************************************)
(* C14: the two shapes of a coordinate are equivalent for                  *)
(* setInputFromLatLng: for all numbers a and b and from the same state,    *)
(* setInputFromLatLng([a, b]) and setInputFromLatLng({lat: a, lng: b})     *)
(* leave the same input text, the same map view and the same markers.      *)
(***************************************************************************)
\* The numbers a and b are drawn from.
CoordNums == {0, Dec(1, 5), Dec(-2, 5), Dec(10, 0)}

C14_ShapesEquivalent ==
    \A i \in Inst :
        Ready(i) =>
            \A a \in CoordNums, b \in CoordNums :
                SetInputOutcome(i, Arr(<<Num(a), Num(b)>>)) =
                    SetInputOutcome(i, Obj(Num(a), Num(b)))

\* setInputFromLatLng({lat: 1.5, lng: -2.5}) has written "1.5,-2.5" and
\* placed the marker at (1.5, -2.5), where the call with [1.5, -2.5] from
\* this state leaves text and marker.
C14_Witness ==
    /\ last.op = "setInputFromLatLng"
    /\ last.arg = Obj(Num(Dec(1, 5)), Num(Dec(-2, 5)))
    /\ InputText(last.inst) = Text15m25
    /\ MarkerAt(last.inst, LatLng(Dec(1, 5), Dec(-2, 5)))
    /\ LET out == SetInputOutcome(last.inst, Arr(<<Num(Dec(1, 5)), Num(Dec(-2, 5))>>))
       IN  /\ out.text = InputText(last.inst)
           /\ out.view = ViewOf(last.inst)
           /\ \E m \in out.layers : out.layers = {m} /\ m.latlng = LatLng(Dec(1, 5), Dec(-2, 5))

(***************************************************************************)
(* C15: _setMarker is idempotent: from any state, two calls in a row with  *)
(* the same coordinate c leave exactly one marker on the map, at c, which  *)
(* is what one call leaves.                                                *)
(*                                                                         *)
(* It fails after an empty input change (C1): the marker layer that        *)
(* change left on the map is not the instance's _marker, and no call of    *)
(* _setMarker removes it.                                                  *)
(***************************************************************************)
C15_SetMarkerIdempotent ==
    \A i \in Inst :
        Ready(i) =>
            \A c \in ClickCoords :
                LET once == SetMarker(Displayed(i), _marker[i], nextStamp, c)
                    twice == SetMarker(once.layers, once.marker, nextStamp + 1, c)
                IN  /\ \E m \in twice.layers :
                           twice.layers = {m} /\ m.latlng = c
                    /\ {m.latlng : m \in twice.layers} =
                           {m.latlng : m \in once.layers}
                    /\ Cardinality(twice.layers) = Cardinality(once.layers)

(***************************************************************************)
(* C16: text and marker stay in step: in every state in which a            *)
(* construction, a click handler, a change listener or a                   *)
(* setInputFromLatLng call has completed, a marker on the map is at the    *)
(* coordinate _getLatLngFromInput gives for the input's current text.      *)
(*                                                                         *)
(* It fails after an empty input change (C1), whose marker layer has no    *)
(* position and stays on the map, and after a change to a text whose       *)
(* components are not numbers: _getLatLngFromInput throws in the listener  *)
(* before _setMarker is called, and the earlier marker stays.              *)
(***************************************************************************)
C16_TextAndMarkerInStep ==
    \A i \in Inst :
        Ready(i) =>
            \A m \in Displayed(i) :
                /\ GetLatLngFromInput(InputText(i)).t = "latlng"
                /\ GetLatLngFromInput(InputText(i)) = m.latlng

=============================================================================
